---------------------------- MODULE Spec2Model ----------------------------
(***************************************************************************)
(* A model of the three page simulations of the repository:                *)
(*   - the rigid-body overlay (physics-engine.js, mouse-tracker.js,         *)
(*     particle-system.js): its frame loop, pause flag, visibility         *)
(*     handler, boundary walls and resize;                                 *)
(*   - the page-load bootstrap of the overlay, the star field              *)
(*     (particles.js) and the entity simulation (GravityBlog);             *)
(*   - the entity spring-field simulation (PhysicsEntity, PhysicsWorld).   *)
(*                                                                         *)
(* JavaScript numbers are modelled as exact rationals <<n, d>> (d > 0, in   *)
(* lowest terms).  Math.sqrt is the exact root; the inputs of the entity   *)
(* simulation are laid out on one line so that every root the code takes   *)
(* is rational.  IEEE-754 rounding is outside the model.                   *)
(***************************************************************************)
EXTENDS Integers, Sequences, FiniteSets, TLC

VARIABLES
    \* ---- the page
    dom,            \* ids / selectors of the elements the document holds
    reducedMotion,  \* matchMedia('(prefers-reduced-motion: reduce)').matches
    touch,          \* isTouchDevice()
    hidden,         \* document.hidden
    saved,          \* localStorage['physics-paused']: "null", "true", "false"
    innerW, innerH, \* window.innerWidth, window.innerHeight
    now,            \* the frame clock (ms)
    \* ---- physics-engine.js module state
    phase,          \* "load": initPhysicsEngine not yet run; "ready"; "skipped"
    animationId,    \* the handle of the last requestAnimationFrame, Null = null
    isPaused,
    rafQueue,       \* frame callbacks requested and not yet run or cancelled
    nextHandle,     \* the handle the next requestAnimationFrame returns
    lastTime,       \* per animate chain: the closure variable lastTime
    canvasW, canvasH,
    world,          \* the solver world's bodies, in insertion order
    particles,      \* FALSE before createParticles (undefined), TRUE after
    \* ---- history (what the claims speak about)
    hiddenWhileRunning, \* the page was hidden while the loop ran, no toggle since
    savedAtInit,        \* the persisted flag initPhysicsEngine found
    toggled,            \* the user has clicked the toggle since initialization
    steps,              \* update/render steps executed
    \* ---- bootstrap of the two other simulations
    starStatus,     \* "load", "running", "skipped", "crashed"
    entityStatus,   \* "load", "running", "skipped", "crashed"
    setupDone,      \* the GravityBlog.setup calls that completed
    \* ---- the entity simulation
    entities,       \* PhysicsWorld.entities
    mouse,          \* PhysicsWorld.mouse
    epc,            \* "events": before the frame; "updated": after update()
    forces,         \* log of applyForce calls of the current frame
    visits,         \* pairs applyEntityRepulsion looked at
    pre,            \* entities as update() found them
    axis,           \* the line the entities, the pointer and the clicks lie on
    moved,           \* per entity: its fields after "Update position"
    lastDt,         \* the dt of the update
    \* ---- the star field (particles.js)
    stars,          \* ParticleSystem.particles: x, y, speedX, speedY
    starMouse,      \* ParticleSystem.mouse
    starW, starH,   \* canvas.width, canvas.height of the star canvas
    spc,            \* "events": before the frame; "updated": after animate()
    starFrames,     \* frames the star field has drawn
    carried,        \* per star: its position after drift and nudge, before the wrap
    divisors,       \* per star: the distances the last frame divided by
    \* ---- mouse-tracker.js module state
    mousePosition,
    isTracking,
    \* ---- history of the tracker and of the overlay's steps
    lastEvent,      \* kind: the last event that set isTracking ("none" at first);
                    \* empty: a touch event without touches came since
    fresh,          \* mousePosition was written since the last mouseleave / touchend
    mouseForces,    \* Matter.Body.applyForce calls of the last executed step
    userPaused      \* "no", or what followed the toggle that paused: "paused",
                    \* "hid" (the page was hidden since), "showed" (and shown again)

overlayVars == <<phase, animationId, isPaused, rafQueue, nextHandle, lastTime,
                 canvasW, canvasH, world, particles, hiddenWhileRunning,
                 savedAtInit, toggled, steps>>
pageVars == <<dom, reducedMotion, touch, hidden, saved, innerW, innerH, now>>
bootVars == <<starStatus, entityStatus, setupDone>>
entityVars == <<entities, mouse, epc, forces, visits, pre, axis, moved, lastDt>>
starVars == <<stars, starMouse, starW, starH, spc, starFrames, carried, divisors>>
trackerVars == <<mousePosition, isTracking, lastEvent, fresh>>
vars == <<pageVars, overlayVars, bootVars, entityVars, starVars, trackerVars,
          mouseForces, userPaused>>

Null == 0

-----------------------------------------------------------------------------
(* JavaScript numbers as exact rationals.                                  *)

Abs(n) == IF n < 0 THEN -n ELSE n

RECURSIVE GCD(_, _)
GCD(a, b) == IF b = 0 THEN a ELSE GCD(b, a % b)

\* n/d in lowest terms with a positive denominator
R(n, d) ==
    LET g == GCD(Abs(n), Abs(d))
        s == IF d < 0 THEN -1 ELSE 1
    IN  <<(s * n) \div g, (s * d) \div g>>

I(n) == <<n, 1>>
Zero == <<0, 1>>

Add(a, b) ==
    LET g == GCD(a[2], b[2])
    IN  R(a[1] * (b[2] \div g) + b[1] * (a[2] \div g), (a[2] \div g) * b[2])
Neg(a) == <<-a[1], a[2]>>
Sub(a, b) == Add(a, Neg(b))
Mul(a, b) ==
    LET g1 == GCD(Abs(a[1]), b[2])
        g2 == GCD(Abs(b[1]), a[2])
    IN  IF a[1] = 0 \/ b[1] = 0 THEN Zero
        ELSE <<(a[1] \div g1) * (b[1] \div g2), (a[2] \div g2) * (b[2] \div g1)>>
\* a / b for b # 0
Div(a, b) == Mul(a, IF b[1] < 0 THEN <<-b[2], -b[1]>> ELSE <<b[2], b[1]>>)
Lt(a, b) ==
    LET g == GCD(a[2], b[2])
    IN  a[1] * (b[2] \div g) < b[1] * (a[2] \div g)
Le(a, b) == ~Lt(b, a)
Gt(a, b) == Lt(b, a)

\* floor of the square root of a natural number
RECURSIVE ISqrtIn(_, _, _)
ISqrtIn(n, lo, hi) ==
    IF lo >= hi THEN lo
    ELSE LET mid == (lo + hi + 1) \div 2
         IN  IF mid <= n \div mid THEN ISqrtIn(n, mid, hi)
             ELSE ISqrtIn(n, lo, mid - 1)
ISqrt(n) == ISqrtIn(n, 0, IF n < 46340 THEN n ELSE 46340)

\* Math.sqrt of a rational whose root is rational (the layouts below make
\* every argument such a number; any other argument stops the evaluation)
Sqrt(a) ==
    LET rn == ISqrt(a[1])
        rd == ISqrt(a[2])
    IN  CHOOSE r \in {<<rn, rd>>} : rn * rn = a[1] /\ rd * rd = a[2]

\* the one element of a singleton: The({F(v) : v \in {e}}) is F(e), with e
\* evaluated once
The(S) == CHOOSE x \in S : TRUE

\* Math.sqrt(x * x + y * y), taken on the common denominator and with the
\* common factor of the numerators pulled out of the root
Hypot(x, y) ==
    LET g == GCD(x[2], y[2])
        D == x[2] * (y[2] \div g)
        a == Abs(x[1]) * (y[2] \div g)
        b == Abs(y[1]) * (x[2] \div g)
        h == GCD(a, b)
    IN  IF h = 0 THEN Zero
        ELSE Mul(I(h), Mul(Sqrt(I((a \div h) * (a \div h) + (b \div h) * (b \div h))),
                           R(1, D)))

-----------------------------------------------------------------------------
(* The rigid-body overlay: physics-engine.js                               *)

\* bounds of the model
MaxHandle == 4      \* requestAnimationFrame handles handed out
MaxTime == 50       \* the frame clock stops here (ms)
MaxParticles == 1   \* bodies createParticles makes (CONFIG.particleCount)

\* time between two display refreshes in ms: 120 Hz and 60 Hz displays
FrameGaps == {R(25, 3), R(50, 3)}
Viewports == {<<800, 600>>, <<400, 300>>}

targetFPS == IF touch THEN 30 ELSE 60
frameDelay == R(1000, targetFPS)

thickness == 50

\* Matter.Bodies.rectangle(x, y, w, h, {isStatic: true})
Wall(x, y, w, h) == [isStatic |-> TRUE, x |-> x, y |-> y, w |-> w, h |-> h]

\* the four walls createBoundaries adds for a canvas of w by h
createBoundaries(w, h) ==
    << Wall(R(w, 2), R(-thickness, 2), I(w), I(thickness)),
       Wall(R(w, 2), Add(I(h), R(thickness, 2)), I(w), I(thickness)),
       Wall(R(-thickness, 2), R(h, 2), I(thickness), I(h)),
       Wall(Add(I(w), R(thickness, 2)), R(h, 2), I(thickness), I(h)) >>

IsStatic(b) == b.isStatic
NotStatic(b) == ~b.isStatic

\* Matter.Body.setPosition(particle, {x * scaleX, y * scaleY})
ScaleBody(b, scaleX, scaleY) ==
    IF b.isStatic THEN b
    ELSE [b EXCEPT !.x = Mul(b.x, scaleX), !.y = Mul(b.y, scaleY)]

\* resizeCanvas on a world wd whose canvas was oldW by oldH; the window is
\* newW by newH; made says whether particles exist.  The new world.
resizeCanvas(wd, made, oldW, oldH, newW, newH) ==
    LET scaled ==
            IF made /\ oldW > 0 /\ oldH > 0
            THEN [i \in 1..Len(wd) |->
                     ScaleBody(wd[i], R(newW, oldW), R(newH, oldH))]
            ELSE wd
    IN  SelectSeq(scaled, NotStatic) \o createBoundaries(newW, newH)

\* createParticles: the sequences of count bodies it may make, at positions
\* Math.random() * width, Math.random() * height; the random factors are
\* drawn from {0, 1/2}
Particle(x, y) == [isStatic |-> FALSE, x |-> x, y |-> y, w |-> Zero, h |-> Zero]
RandomFactors == {Zero, R(1, 2)}
createParticles(w, h, count) ==
    { [i \in 1..count |-> Particle(Mul(f[i][1], I(w)), Mul(f[i][2], I(h)))] :
        f \in [1..count -> RandomFactors \X RandomFactors] }

\* ---- the frame loop.  The module state the loop functions touch, as a
\* record, so that one handler can call several of them in a row.
Loop == [animationId |-> animationId, isPaused |-> isPaused, saved |-> saved,
         rafQueue |-> rafQueue, nextHandle |-> nextHandle,
         lastTime |-> lastTime]

SetLoop(s) ==
    /\ animationId' = s.animationId
    /\ isPaused' = s.isPaused
    /\ saved' = s.saved
    /\ rafQueue' = s.rafQueue
    /\ nextHandle' = s.nextHandle
    /\ lastTime' = s.lastTime

\* a variant that starts a chain without looking at animationId
startSimulation_unguarded(s) ==
    [s EXCEPT !.animationId = s.nextHandle,
              !.rafQueue = @ \cup {[h |-> s.nextHandle, chain |-> s.nextHandle]},
              !.nextHandle = @ + 1,
              !.lastTime = [c \in DOMAIN @ \cup {s.nextHandle} |->
                               IF c = s.nextHandle THEN Zero ELSE @[c]]]

\* startSimulation: a new animate chain with its own lastTime = 0, unless
\* animationId says one is running
startSimulation(s) ==
    IF s.animationId # Null THEN s
    ELSE [s EXCEPT !.animationId = s.nextHandle,
                   !.rafQueue = @ \cup {[h |-> s.nextHandle, chain |-> s.nextHandle]},
                   !.nextHandle = @ + 1,
                   !.lastTime = [c \in DOMAIN @ \cup {s.nextHandle} |->
                                    IF c = s.nextHandle THEN Zero ELSE @[c]]]

\* a variant that does not persist the pause
pauseSimulation_unsaved(s) ==
    [s EXCEPT !.isPaused = TRUE,
              !.rafQueue = {q \in @ : q.h # s.animationId},
              !.animationId = Null]

\* pauseSimulation: cancelAnimationFrame(animationId) and persist "true"
pauseSimulation(s) ==
    [s EXCEPT !.isPaused = TRUE,
              !.rafQueue = {q \in @ : q.h # s.animationId},
              !.animationId = Null,
              !.saved = "true"]

\* resumeSimulation
resumeSimulation(s) ==
    [startSimulation([s EXCEPT !.isPaused = FALSE]) EXCEPT !.saved = "false"]

\* setupPauseToggle, the part that runs inside initPhysicsEngine
setupPauseToggle(s) ==
    IF "physics-toggle" \notin dom THEN s
    ELSE IF s.saved = "true" THEN pauseSimulation(s) ELSE s

\* the toggle button's click listener is installed
ToggleInstalled == phase = "ready" /\ "physics-toggle" \in dom


-----------------------------------------------------------------------------
(* Actions of the overlay                                                   *)

\* initPhysicsEngine, run once on DOMContentLoaded (home-interactive entry)
initPhysicsEngine ==
    /\ phase = "load"
    /\ nextHandle <= MaxHandle
    /\ IF reducedMotion \/ "physics-canvas" \notin dom
       THEN /\ phase' = "skipped"
            /\ UNCHANGED <<animationId, isPaused, rafQueue, nextHandle,
                           lastTime, canvasW, canvasH, world, particles,
                           savedAtInit, saved>>
       ELSE \E ps \in createParticles(innerW, innerH, MaxParticles) :
            /\ phase' = "ready"
            /\ canvasW' = innerW
            /\ canvasH' = innerH
               \* resizeCanvas() (particles undefined), createBoundaries(),
               \* createParticles(): World.add appends
            /\ world' = resizeCanvas(world, particles, canvasW, canvasH,
                                     innerW, innerH)
                        \o createBoundaries(innerW, innerH) \o ps
            /\ particles' = TRUE
            /\ savedAtInit' = saved
               \* setupPauseToggle(); startSimulation()
            /\ SetLoop(startSimulation(setupPauseToggle(Loop)))
    /\ UNCHANGED <<hiddenWhileRunning, toggled, steps, mouseForces, userPaused>>
    /\ UNCHANGED <<dom, reducedMotion, touch, hidden, innerW, innerH, now>>
    /\ UNCHANGED <<bootVars, entityVars, starVars, trackerVars>>

\* the click listener of #physics-toggle
ToggleClickEffect ==
    /\ SetLoop(IF isPaused THEN resumeSimulation(Loop) ELSE pauseSimulation(Loop))
    /\ toggled' = TRUE
    /\ hiddenWhileRunning' = FALSE
    /\ userPaused' = IF isPaused THEN "no" ELSE "paused"
    /\ UNCHANGED <<phase, canvasW, canvasH, world, particles, savedAtInit, steps,
                   mouseForces>>
    /\ UNCHANGED <<dom, reducedMotion, touch, hidden, innerW, innerH, now>>
    /\ UNCHANGED <<bootVars, entityVars, starVars, trackerVars>>

ToggleClick ==
    /\ ToggleInstalled
    /\ nextHandle <= MaxHandle
    /\ ToggleClickEffect

\* the keydown listener: Space or P clicks the toggle unless a text input
\* has the focus
KeyCodes == {"Space", "KeyP", "KeyR"}
ActiveTags == {"BODY", "INPUT", "TEXTAREA"}
KeyDown ==
    /\ ToggleInstalled
    /\ nextHandle <= MaxHandle
    /\ \E code \in KeyCodes, tag \in ActiveTags :
          IF code \in {"Space", "KeyP"} /\ tag \notin {"INPUT", "TEXTAREA"}
          THEN ToggleClickEffect
          ELSE UNCHANGED vars

\* the visibilitychange listener, installed when the module is evaluated
VisibilityChange ==
    /\ nextHandle <= MaxHandle
    /\ hidden' = ~hidden
    /\ IF hidden' /\ ~isPaused
       THEN SetLoop(pauseSimulation(Loop))
       ELSE IF ~hidden' /\ isPaused /\ saved # "true"
            THEN SetLoop(resumeSimulation(Loop))
            ELSE UNCHANGED <<animationId, isPaused, saved, rafQueue,
                             nextHandle, lastTime>>
    /\ hiddenWhileRunning' =
          (hidden' /\ phase = "ready" /\ animationId # Null /\ ~isPaused)
    /\ userPaused' = IF userPaused = "no" THEN "no"
                      ELSE IF hidden' THEN "hid"
                      ELSE IF userPaused = "paused" THEN "paused" ELSE "showed"
    /\ UNCHANGED <<phase, canvasW, canvasH, world, particles, savedAtInit,
                   toggled, steps, mouseForces>>
    /\ UNCHANGED <<dom, reducedMotion, touch, innerW, innerH, now>>
    /\ UNCHANGED <<bootVars, entityVars, starVars, trackerVars>>

\* the window is resized; resizeCanvas is its listener once
\* initPhysicsEngine has installed it
Resize ==
    /\ \E v \in Viewports :
          /\ innerW' = v[1]
          /\ innerH' = v[2]
          /\ IF phase = "ready"
             THEN /\ canvasW' = v[1]
                  /\ canvasH' = v[2]
                  /\ world' = resizeCanvas(world, particles, canvasW, canvasH,
                                           v[1], v[2])
             ELSE UNCHANGED <<canvasW, canvasH, world>>
    /\ UNCHANGED <<phase, animationId, isPaused, rafQueue, nextHandle,
                   lastTime, particles, hiddenWhileRunning, savedAtInit,
                   toggled, steps, mouseForces, userPaused>>
    /\ UNCHANGED <<dom, reducedMotion, touch, hidden, saved, now>>
    /\ UNCHANGED <<bootVars, entityVars, starVars, trackerVars>>

\* CONFIG.interactionRadius, CONFIG.forceMagnitude
interactionRadius == IF touch THEN 150 ELSE 250
forceMagnitude == R(5, 10000)

\* getMousePosition without its isTracking test
getMousePosition_untracked == <<mousePosition>>

\* mouse-tracker.js getMousePosition: <<position>>, or <<>> for null
getMousePosition == IF isTracking THEN <<mousePosition>> ELSE <<>>

\* the body of applyMouseForce's forEach for particle number i of ps and the
\* pointer at m: the Matter.Body.applyForce calls it makes
mouseForceOn(ps, i, m) ==
    LET dx == Sub(m[1], ps[i].x)
        dy == Sub(m[2], ps[i].y)
    IN  The({ IF Lt(distance, I(interactionRadius)) /\ Gt(distance, Zero)
              THEN <<[to |-> i, x |-> Mul(Div(dx, distance), forceMagnitude),
                               y |-> Mul(Div(dy, distance), forceMagnitude),
                               distance |-> distance]>>
              ELSE <<>> : distance \in {Hypot(dx, dy)} })

RECURSIVE mouseForceFrom(_, _, _)
mouseForceFrom(ps, i, m) ==
    IF i > Len(ps) THEN <<>>
    ELSE mouseForceOn(ps, i, m) \o mouseForceFrom(ps, i + 1, m)

\* applyMouseForce: the forces it applies, in order; particles is the array
\* createParticles returned, the non-static bodies of the world
applyMouseForce ==
    IF getMousePosition = <<>> \/ ~particles THEN <<>>
    ELSE mouseForceFrom(SelectSeq(world, NotStatic), 1, getMousePosition[1])

\* the browser runs one requested frame callback: animate(timestamp).
\* A hidden page gets no animation frames.
animate ==
    /\ ~hidden
    /\ nextHandle <= MaxHandle
    /\ \E q \in rafQueue, gap \in FrameGaps :
          LET timestamp == Add(now, gap) IN
          /\ Le(timestamp, I(MaxTime))
          /\ now' = timestamp
          /\ animationId' = nextHandle
          /\ rafQueue' = (rafQueue \ {q}) \cup {[h |-> nextHandle, chain |-> q.chain]}
          /\ nextHandle' = nextHandle + 1
          /\ IF Lt(Sub(timestamp, lastTime[q.chain]), frameDelay)
             THEN UNCHANGED <<lastTime, steps, mouseForces>>
             ELSE /\ lastTime' = [lastTime EXCEPT ![q.chain] = timestamp]
                     \* Engine.update, applyMouseForce, render
                  /\ steps' = steps + 1
                  /\ mouseForces' = applyMouseForce
    /\ UNCHANGED <<phase, isPaused, canvasW, canvasH, world, particles,
                   hiddenWhileRunning, savedAtInit, toggled, userPaused>>
    /\ UNCHANGED <<dom, reducedMotion, touch, hidden, saved, innerW, innerH>>
    /\ UNCHANGED <<bootVars, entityVars, starVars, trackerVars>>

-----------------------------------------------------------------------------
(* The overlay's specification                                              *)

OtherElements == {"particles", "title-letters", "gravity-cursor"}

PageInit ==
    /\ reducedMotion \in BOOLEAN
    /\ touch \in BOOLEAN
    /\ hidden = FALSE
    /\ saved \in {"null", "true", "false"}
    /\ \E v \in Viewports : innerW = v[1] /\ innerH = v[2]
    /\ now = Zero

OverlayInit ==
    /\ phase = "load"
    /\ animationId = Null
    /\ isPaused = FALSE
    /\ rafQueue = {}
    /\ nextHandle = 1
    /\ lastTime = <<>>
    /\ canvasW = 0
    /\ canvasH = 0
    /\ world = <<>>
    /\ particles = FALSE
    /\ hiddenWhileRunning = FALSE
    /\ savedAtInit = "null"
    /\ toggled = FALSE
    /\ steps = 0

BootIdle ==
    /\ starStatus = "load"
    /\ entityStatus = "load"
    /\ setupDone = <<>>

StarIdle ==
    /\ stars = <<>>
    /\ starMouse = <<Zero, Zero>>
    /\ starW = 0
    /\ starH = 0
    /\ spc = "off"
    /\ starFrames = 0
    /\ carried = <<>>
    /\ divisors = <<>>

\* mouse-tracker.js as the module is evaluated; no step, no toggle yet
TrackerIdle ==
    /\ mousePosition = <<Zero, Zero>>
    /\ isTracking = FALSE
    /\ lastEvent = [kind |-> "none", empty |-> FALSE]
    /\ fresh = FALSE
    /\ mouseForces = <<>>
    /\ userPaused = "no"

EntityIdle ==
    /\ entities = <<>>
    /\ mouse = <<Zero, Zero>>
    /\ epc = "off"
    /\ forces = <<>>
    /\ visits = <<>>
    /\ pre = <<>>
    /\ axis = <<Zero, Zero>>
    /\ moved = <<>>
    /\ lastDt = Zero

Init ==
    /\ dom \in {d \cup OtherElements : d \in SUBSET {"physics-canvas", "physics-toggle"}}
    /\ PageInit
    /\ OverlayInit
    /\ BootIdle
    /\ StarIdle
    /\ TrackerIdle
    /\ EntityIdle

Next ==
    \/ initPhysicsEngine
    \/ ToggleClick
    \/ KeyDown
    \/ VisibilityChange
    \/ Resize
    \/ animate

Spec == Init /\ [][Next]_vars

-----------------------------------------------------------------------------
(* Claims about the overlay                                                 *)

\* C1: when the page was hidden while the frame loop was running and not
\* paused by the user, and no toggle happened since, the visibilitychange
\* that makes the page visible again leaves the loop running: animationId
\* is non-null and isPaused is false (the persisted flag was not 'true' at
\* startup).
C1_ResumesWhenVisibleAgain ==
    [][(hidden /\ ~hidden' /\ hiddenWhileRunning /\ savedAtInit # "true")
          => (animationId' # Null /\ ~isPaused')]_vars

\* C2: when initPhysicsEngine found the persisted flag 'physics-paused' equal
\* to 'true' (canvas and toggle button present), then as long as the user
\* has not toggled, no frame callback is scheduled and no update/render step
\* has run.
C2_SavedPauseHonoured ==
    (phase = "ready" /\ "physics-toggle" \in dom /\ savedAtInit = "true"
        /\ ~toggled)
       => (animationId = Null /\ rafQueue = {} /\ steps = 0)

\* C3: after initialization, whenever the page is hidden no frame callback
\* is scheduled.
C3_NoFrameWhileHidden ==
    (phase = "ready" /\ hidden) => animationId = Null

\* C4: after initPhysicsEngine has returned, whatever resizes followed, the
\* static bodies of the world are exactly four: the top, bottom, left and
\* right wall of the current canvas.
C4_FourWalls ==
    phase = "ready" =>
       LET st == SelectSeq(world, IsStatic)
           half == R(thickness, 2)
           top == Wall(R(canvasW, 2), Neg(half), I(canvasW), I(thickness))
           bottom == Wall(R(canvasW, 2), Add(I(canvasH), half),
                          I(canvasW), I(thickness))
           left == Wall(Neg(half), R(canvasH, 2), I(thickness), I(canvasH))
           right == Wall(Add(I(canvasW), half), R(canvasH, 2),
                         I(thickness), I(canvasH))
       IN  /\ Len(st) = 4
           /\ {st[i] : i \in 1..Len(st)} = {top, bottom, left, right}

\* C13: every run of the frame callback schedules the next callback, and it
\* executes the update / mouse-force / render step only when at least one
\* frame interval (1000 / targetFPS ms) has passed since the timestamp of
\* the step executed before, so that two consecutive executed steps are at
\* least one frame interval apart.
C13_FrameThrottle ==
    [][/\ now' # now => (animationId' # Null /\ \E q \in rafQueue' : q.h = animationId')
       /\ steps' = steps + 1 =>
             \A c \in DOMAIN lastTime :
                 lastTime[c] # Zero => Le(frameDelay, Sub(now', lastTime[c]))]_vars

\* C15: once the user has paused the simulation with the toggle (click,
\* Space or P), hide / show visibility changes leave it paused: isPaused is
\* true, animationId is null and the persisted flag is 'true', until the
\* user toggles again.
C15_UserPauseSurvivesVisibility ==
    userPaused # "no" =>
        /\ isPaused
        /\ animationId = Null
        /\ rafQueue = {}
        /\ saved = "true"

\* the user paused, the page was hidden and shown again, and the simulation
\* is still paused
C15_Witness ==
    /\ userPaused = "showed"
    /\ ~hidden
    /\ isPaused
    /\ animationId = Null
    /\ saved = "true"

\* C17: whatever the interleaving of initialization, toggle clicks, Space / P
\* presses, visibility changes and frame callbacks, at most one frame
\* callback is pending, and it is the one animationId names: startSimulation
\* starts no second chain and pauseSimulation leaves none pending.
C17_SingleFrameLoop ==
    /\ Cardinality(rafQueue) <= 1
    /\ \A q \in rafQueue : q.h = animationId
    /\ animationId = Null => rafQueue = {}

\* a second chain runs after the first was cancelled by a toggle, and one
\* callback is pending
C17_Witness ==
    /\ phase = "ready"
    /\ toggled
    /\ Cardinality(DOMAIN lastTime) >= 2
    /\ steps >= 2
    /\ Cardinality(rafQueue) = 1

-----------------------------------------------------------------------------
(* Page-load bootstrap of the star field and of the entity simulation       *)

\* particles.js, the DOMContentLoaded listener: new ParticleSystem(
\* document.getElementById('particles')).  The constructor's second line
\* calls canvas.getContext, a TypeError on null that nothing catches.
ParticleSystemBoot ==
    /\ starStatus = "load"
    /\ starStatus' = IF "particles" \in dom THEN "running" ELSE "crashed"
    /\ UNCHANGED <<entityStatus, setupDone>>
    /\ UNCHANGED <<pageVars, overlayVars, entityVars, starVars, trackerVars,
                   mouseForces, userPaused>>

\* GravityBlog.setup calls these in order; an exception ends it
SetupCalls == <<"initPhysics", "createTitleLetters", "initCursor",
                "updateEntityCount", "initInteractions">>

\* whether the call throws on this document:
\*   createTitleLetters: container.appendChild with container = null
\*   initCursor: updateCursor() reads cursor.style with cursor = null
\*   updateEntityCount: guarded by if (counter)
Throws(call) ==
    \/ call = "createTitleLetters" /\ "title-letters" \notin dom
    \/ call = "initCursor" /\ "gravity-cursor" \notin dom

\* the calls of setup that complete, from call number i on
RECURSIVE Completed(_)
Completed(i) ==
    IF i > Len(SetupCalls) \/ Throws(SetupCalls[i]) THEN <<>>
    ELSE <<SetupCalls[i]>> \o Completed(i + 1)

\* the DOMContentLoaded listener: new GravityBlog() -> init -> setup
GravityBlogBoot ==
    /\ entityStatus = "load"
    /\ setupDone' = Completed(1)
    /\ entityStatus' = IF setupDone' = SetupCalls THEN "running" ELSE "crashed"
    /\ UNCHANGED starStatus
    /\ UNCHANGED <<pageVars, overlayVars, entityVars, starVars, trackerVars,
                   mouseForces, userPaused>>

InitBoot ==
    /\ dom \in SUBSET ({"physics-canvas", "physics-toggle"} \cup OtherElements)
    /\ PageInit
    /\ OverlayInit
    /\ BootIdle
    /\ StarIdle
    /\ TrackerIdle
    /\ EntityIdle

NextBoot ==
    \/ initPhysicsEngine
    \/ ParticleSystemBoot
    \/ GravityBlogBoot

SpecBoot == InitBoot /\ [][NextBoot]_vars

\* C5: a simulation whose required element is missing finishes its bootstrap
\* without an uncaught exception and skips its initialization: the overlay
\* without #physics-canvas, the star field without #particles, the entity
\* simulation without #title-letters or .gravity-cursor.
C5_MissingElementSkips ==
    /\ (phase # "load" /\ "physics-canvas" \notin dom) => phase = "skipped"
    /\ (starStatus # "load" /\ "particles" \notin dom) => starStatus = "skipped"
    /\ (entityStatus # "load"
          /\ ("title-letters" \notin dom \/ "gravity-cursor" \notin dom))
         => entityStatus = "skipped"

-----------------------------------------------------------------------------
(* The entity spring-field simulation: PhysicsEntity and PhysicsWorld       *)

damping == R(98, 100)
maxSpeed == 3
springStrength == R(5, 10000)
margin == 100
gravity == R(3, 10)
gravityRadius == 300
repulsionRadius == 100
minDistance == 150

\* PhysicsEntity.applyForce
applyForce(e, fx, fy) ==
    [e EXCEPT !.ax = Add(@, Div(fx, e.mass)), !.ay = Add(@, Div(fy, e.mass))]

\* a variant without the speed limit
limitSpeed_unlimited(v) == v

\* "Limit speed": the velocity v = <<vx, vy>> after the limit
limitSpeed(v) ==
    The({ IF Gt(speed, I(maxSpeed))
          THEN <<Mul(Div(v[1], speed), I(maxSpeed)),
                 Mul(Div(v[2], speed), I(maxSpeed))>>
          ELSE v : speed \in {Hypot(v[1], v[2])} })

\* a variant whose spring pulls to the pointer, not to the rest position
integrate_springToPointer(e, dt) ==
    LET dx == Sub(mouse[1], e.x)
        dy == Sub(mouse[2], e.y)
    IN  The({ The({ [s EXCEPT !.vx = v[1], !.vy = v[2],
                              !.x = Add(@, Mul(v[1], dt)),
                              !.y = Add(@, Mul(v[2], dt))] :
                    v \in {limitSpeed(<<Mul(Add(s.vx, Mul(s.ax, dt)), damping),
                                        Mul(Add(s.vy, Mul(s.ay, dt)), damping)>>)} }) :
              s \in {applyForce(e, Mul(dx, springStrength),
                                Mul(dy, springStrength))} })

\* PhysicsEntity.update up to "Update position": spring force, velocity
\* update, damping, speed limit, position update
integrate(e, dt) ==
    LET dx == Sub(e.originalX, e.x)
        dy == Sub(e.originalY, e.y)
    IN  The({ The({ [s EXCEPT !.vx = v[1], !.vy = v[2],
                              !.x = Add(@, Mul(v[1], dt)),
                              !.y = Add(@, Mul(v[2], dt))] :
                    v \in {limitSpeed(<<Mul(Add(s.vx, Mul(s.ax, dt)), damping),
                                        Mul(Add(s.vy, Mul(s.ay, dt)), damping)>>)} }) :
              s \in {applyForce(e, Mul(dx, springStrength),
                                Mul(dy, springStrength))} })

\* a variant that checks the low edge only
bounce_lowEdgeOnly(p0, v, extent) ==
    The({ IF Lt(p, I(margin)) THEN <<I(margin), Mul(v, R(-1, 2))>>
          ELSE <<p, v>> : p \in {p0} })

\* a variant that bounces without losing speed
bounce_elastic(p0, v, extent) ==
    The({ IF Lt(p, I(margin)) THEN <<I(margin), Neg(v)>>
          ELSE IF Gt(p, I(extent - margin))
               THEN <<I(extent - margin), Neg(v)>>
               ELSE <<p, v>> : p \in {p0} })

\* the boundary check of one axis: position p, velocity v, extent of the
\* window; the new <<position, velocity>>
bounce(p0, v, extent) ==
    The({ IF Lt(p, I(margin)) THEN <<I(margin), Mul(v, R(-1, 2))>>
          ELSE IF Gt(p, I(extent - margin))
               THEN <<I(extent - margin), Mul(v, R(-1, 2))>>
               ELSE <<p, v>> : p \in {p0} })

\* PhysicsEntity.update from "Boundary check with bounce" on, in a window of
\* width by height
boundaryCheck(e, width, height) ==
    The({ [e EXCEPT !.x = b[1][1], !.vx = b[1][2], !.y = b[2][1], !.vy = b[2][2],
                    !.ax = Zero, !.ay = Zero] :
          b \in { <<bounce(e.x, e.vx, width), bounce(e.y, e.vy, height)>> } })

\* PhysicsEntity.update(dt) of every entity; <<the entities after "Update
\* position", the entities after update>>
updateAll(es, dt, width, height) ==
    The({ <<mv, [i \in 1..Len(es) |-> boundaryCheck(mv[i], width, height)]>> :
          mv \in {[i \in 1..Len(es) |-> integrate(es[i], dt)]} })

\* ---- PhysicsWorld.  Its functions act on the entities and are logged: st
\* is [entities, forces, visits].  A call entities[i].applyForce(fx, fy) is
\* logged with its caller, and with the other entity of the pair when the
\* caller is applyEntityRepulsion (0 otherwise).
applyForceTo(st, i, fx, fy, who, other) ==
    [st EXCEPT !.entities[i] = applyForce(@, fx, fy),
               !.forces = Append(@, [to |-> i, fx |-> fx, fy |-> fy, by |-> who,
                                     other |-> other])]

\* a variant whose repulsion leaves out the distance repulsionRadius itself
applyGravity_openRadius(st, i) ==
    LET e == st.entities[i]
        dx == Sub(mouse[1], e.x)
        dy == Sub(mouse[2], e.y)
    IN  The({
        IF Lt(distance, I(gravityRadius)) /\ Gt(distance, I(repulsionRadius))
        THEN LET force == Div(Mul(gravity, e.mass), Mul(distance, R(1, 100)))
             IN  applyForceTo(st, i, Mul(Div(dx, distance), force),
                              Mul(Div(dy, distance), force), "gravity", 0)
        ELSE IF Lt(distance, I(repulsionRadius)) /\ Gt(distance, I(10))
        THEN LET force == Div(Mul(I(2), e.mass), Mul(distance, R(1, 100)))
             IN  applyForceTo(st, i, Neg(Mul(Div(dx, distance), force)),
                              Neg(Mul(Div(dy, distance), force)), "gravity", 0)
        ELSE st : distance \in {Hypot(dx, dy)} })

\* PhysicsWorld.applyGravity(entity), entity number i
applyGravity(st, i) ==
    LET e == st.entities[i]
        dx == Sub(mouse[1], e.x)
        dy == Sub(mouse[2], e.y)
    IN  The({
        IF Lt(distance, I(gravityRadius)) /\ Gt(distance, I(repulsionRadius))
        THEN LET force == Div(Mul(gravity, e.mass), Mul(distance, R(1, 100)))
             IN  applyForceTo(st, i, Mul(Div(dx, distance), force),
                              Mul(Div(dy, distance), force), "gravity", 0)
        ELSE IF Le(distance, I(repulsionRadius)) /\ Gt(distance, I(10))
        THEN LET force == Div(Mul(I(2), e.mass), Mul(distance, R(1, 100)))
             IN  applyForceTo(st, i, Neg(Mul(Div(dx, distance), force)),
                              Neg(Mul(Div(dy, distance), force)), "gravity", 0)
        ELSE st : distance \in {Hypot(dx, dy)} })

\* a variant that pushes both entities of a pair the same way
repelPair_sameWay(st, i, j) ==
    LET e1 == st.entities[i]
        e2 == st.entities[j]
        dx == Sub(e2.x, e1.x)
        dy == Sub(e2.y, e1.y)
        seen == [st EXCEPT !.visits = Append(@, <<i, j>>)]
    IN  The({
        IF Lt(distance, I(minDistance)) /\ Gt(distance, Zero)
        THEN LET fx == Neg(Mul(Div(dx, distance), R(1, 2)))
                 fy == Neg(Mul(Div(dy, distance), R(1, 2)))
             IN  applyForceTo(applyForceTo(seen, i, fx, fy, "repulsion", j),
                              j, fx, fy, "repulsion", i)
        ELSE seen : distance \in {Hypot(dx, dy)} })

\* the body of applyEntityRepulsion's inner loop for the pair i, j
repelPair(st, i, j) ==
    LET e1 == st.entities[i]
        e2 == st.entities[j]
        dx == Sub(e2.x, e1.x)
        dy == Sub(e2.y, e1.y)
        seen == [st EXCEPT !.visits = Append(@, <<i, j>>)]
    IN  The({
        IF Lt(distance, I(minDistance)) /\ Gt(distance, Zero)
        THEN LET fx == Neg(Mul(Div(dx, distance), R(1, 2)))
                 fy == Neg(Mul(Div(dy, distance), R(1, 2)))
             IN  applyForceTo(applyForceTo(seen, i, fx, fy, "repulsion", j),
                              j, Neg(fx), Neg(fy), "repulsion", i)
        ELSE seen : distance \in {Hypot(dx, dy)} })

\* the two nested loops, from the pair i, j on
RECURSIVE repelFrom(_, _, _)
repelFrom(st, i, j) ==
    IF i > Len(st.entities) THEN st
    ELSE IF j > Len(st.entities) THEN repelFrom(st, i + 1, i + 2)
    ELSE The({ repelFrom(n, i, j + 1) : n \in {repelPair(st, i, j)} })

\* PhysicsWorld.applyEntityRepulsion
applyEntityRepulsion(st) == repelFrom(st, 1, 2)

\* the first loop of PhysicsWorld.update, from entity i on
RECURSIVE gravityFrom(_, _)
gravityFrom(st, i) ==
    IF i > Len(st.entities) THEN st
    ELSE The({ gravityFrom(n, i + 1) : n \in {applyGravity(st, i)} })

\* ---- GravityBlog's interactions

\* the body of applyClickForce's loop for entity i and a click at x, y
clickOne(st, i, x, y) ==
    LET e == st.entities[i]
        dx == Sub(e.x, x)
        dy == Sub(e.y, y)
    IN  The({
        IF Lt(distance, I(300)) /\ Gt(distance, Zero)
        THEN applyForceTo(st, i, Mul(Div(dx, distance), I(10)),
                          Mul(Div(dy, distance), I(10)), "click", 0)
        ELSE st : distance \in {Hypot(dx, dy)} })

\* GravityBlog.applyClickForce(x, y), from entity i on
RECURSIVE applyClickForce(_, _, _, _)
applyClickForce(st, i, x, y) ==
    IF i > Len(st.entities) THEN st
    ELSE The({ applyClickForce(n, i + 1, x, y) : n \in {clickOne(st, i, x, y)} })

\* GravityBlog.scatterElements, from entity i on; rnd[i] = <<c, s, force>> are
\* Math.cos(angle), Math.sin(angle) and 5 + Math.random() * 10 of entity i
RECURSIVE scatterElements(_, _, _)
scatterElements(st, i, rnd) ==
    IF i > Len(st.entities) THEN st
    ELSE The({ scatterElements(n, i + 1, rnd) :
               n \in {applyForceTo(st, i, Mul(rnd[i][1], rnd[i][3]),
                                   Mul(rnd[i][2], rnd[i][3]), "scatter", 0)} })

\* the body of resetPositions' loop for entity i
resetOne(st, i) ==
    LET e == [st.entities[i] EXCEPT !.vx = Zero, !.vy = Zero]
        dx == Sub(e.originalX, e.x)
        dy == Sub(e.originalY, e.y)
    IN  applyForceTo([st EXCEPT !.entities[i] = e], i,
                     Mul(dx, R(1, 10)), Mul(dy, R(1, 10)), "reset", 0)

\* GravityBlog.resetPositions, from entity i on
RECURSIVE resetPositions(_, _)
resetPositions(st, i) ==
    IF i > Len(st.entities) THEN st
    ELSE The({ resetPositions(n, i + 1) : n \in {resetOne(st, i)} })

-----------------------------------------------------------------------------
(* One frame of the entity simulation.  The entities, their rest positions, *)
(* the pointer and the clicks lie on one line through the centre of the    *)
(* window, along axis: horizontal, vertical or the 3-4-5 diagonal.          *)

MaxEntities == 2    \* bound: the entities of the world

Axes == {<<I(1), Zero>>, <<Zero, I(1)>>, <<R(3, 5), R(4, 5)>>}
\* <<axis, window.innerWidth, window.innerHeight>>
Layouts == {<<a, 800, 600>> : a \in Axes} \cup {<<<<I(1), Zero>>, 90, 600>>}

\* the point at offset t along the axis u from the centre of a w by h window
PointOn(u, w, h, t) ==
    <<Add(R(w, 2), Mul(I(t), u[1])), Add(R(h, 2), Mul(I(t), u[2]))>>

\* an entity in the middle of a session: <<offset, speed along the axis,
\* offset of the rest position, mass>>
Kinds == { <<50, 0, 50, 1>>, <<350, 3, 0, 1>>, <<-350, 0, -350, 2>>,
           <<-300, -3, -300, 1>>, <<200, 3, 0, 2>> }

\* the fields of PhysicsEntity
Entity(k, u, w, h) ==
    LET pos == PointOn(u, w, h, k[1])
        rest == PointOn(u, w, h, k[3])
    IN  [x |-> pos[1], y |-> pos[2],
         vx |-> Mul(I(k[2]), u[1]), vy |-> Mul(I(k[2]), u[2]),
         ax |-> Zero, ay |-> Zero, mass |-> I(k[4]),
         originalX |-> rest[1], originalY |-> rest[2]]

PointerOffsets == {-150, 0, 40, 150}
ClickOffsets == {0, 150}
\* scatter draws: the angle points along the axis, either way
ScatterDraws == {<<1, 5>>, <<-1, 10>>}
\* dt = Math.min(elapsed / 16, 2)
DTs == {Zero, I(1), I(2)}

World == [entities |-> entities, forces |-> forces, visits |-> visits]

SetWorld(st) ==
    /\ entities' = st.entities
    /\ forces' = st.forces
    /\ visits' = st.visits

\* the mousemove listener of PhysicsWorld.initMouseTracking
MouseMove ==
    /\ epc = "events"
    /\ \E t \in PointerOffsets : mouse' = PointOn(axis, innerW, innerH, t)
    /\ UNCHANGED <<entities, epc, forces, visits, pre, axis, moved, lastDt>>
    /\ UNCHANGED <<pageVars, overlayVars, bootVars, starVars, trackerVars,
                   mouseForces, userPaused>>

\* the click listener of GravityBlog.initInteractions
Click ==
    /\ epc = "events"
    /\ epc' = "forced"
    /\ \E t \in ClickOffsets :
          \E c \in {PointOn(axis, innerW, innerH, t)} :
          \E st \in {applyClickForce(World, 1, c[1], c[2])} : SetWorld(st)
    /\ UNCHANGED <<mouse, pre, axis, moved, lastDt>>
    /\ UNCHANGED <<pageVars, overlayVars, bootVars, starVars, trackerVars,
                   mouseForces, userPaused>>

\* the keydown listener of GravityBlog.initInteractions
Keys == {" ", "r", "R", "a"}
GravityKeyDown ==
    /\ epc = "events"
    /\ \E key \in Keys :
          /\ epc' = IF key \in {" ", "r", "R"} THEN "forced" ELSE epc
          /\ IF key = " "
             THEN \E d \in [1..Len(entities) -> ScatterDraws] :
                  \E st \in {scatterElements(World, 1,
                     [i \in 1..Len(entities) |->
                        <<Mul(I(d[i][1]), axis[1]), Mul(I(d[i][1]), axis[2]),
                          I(d[i][2])>>])} : SetWorld(st)
             ELSE IF key \in {"r", "R"}
             THEN \E st \in {resetPositions(World, 1)} : SetWorld(st)
             ELSE UNCHANGED <<entities, forces, visits>>
    /\ UNCHANGED <<mouse, pre, axis, moved, lastDt>>
    /\ UNCHANGED <<pageVars, overlayVars, bootVars, starVars, trackerVars,
                   mouseForces, userPaused>>

\* PhysicsWorld.update, called by animate on every animation frame
PhysicsWorldUpdate ==
    /\ epc \in {"events", "forced"}
    /\ epc' = "updated"
    /\ \E st \in {applyEntityRepulsion(gravityFrom(World, 1))} :
          \E dt \in DTs :
          \E u \in {updateAll(st.entities, dt, innerW, innerH)} :
              /\ entities' = u[2]
              /\ forces' = st.forces
              /\ visits' = st.visits
              /\ pre' = st.entities
              /\ moved' = u[1]
              /\ lastDt' = dt
    /\ UNCHANGED <<mouse, axis>>
    /\ UNCHANGED <<pageVars, overlayVars, bootVars, starVars, trackerVars,
                   mouseForces, userPaused>>

InitEntity ==
    /\ dom = {"physics-canvas", "physics-toggle"} \cup OtherElements
    /\ reducedMotion = FALSE
    /\ touch = FALSE
    /\ hidden = FALSE
    /\ saved = "null"
    /\ now = Zero
    /\ OverlayInit
    /\ BootIdle
    /\ StarIdle
    /\ TrackerIdle
    /\ \E l \in Layouts :
          /\ axis = l[1]
          /\ innerW = l[2]
          /\ innerH = l[3]
          /\ entities \in {[i \in 1..MaxEntities |-> Entity(ks[i], l[1], l[2], l[3])] :
                             ks \in [1..MaxEntities -> Kinds]}
          /\ mouse = PointOn(l[1], l[2], l[3], 0)
    /\ epc = "events"
    /\ forces = <<>>
    /\ visits = <<>>
    /\ pre = <<>>
    /\ moved = <<>>
    /\ lastDt = Zero

NextEntity ==
    \/ MouseMove
    \/ Click
    \/ GravityKeyDown
    \/ PhysicsWorldUpdate

SpecEntity == InitEntity /\ [][NextEntity]_vars

-----------------------------------------------------------------------------
(* Properties of one frame of the entity simulation.  In a state with      *)
(* epc = "updated", pre holds the entities as PhysicsEntity.update found    *)
(* them (forces applied), moved holds them after "Update position" and      *)
(* entities holds them after update.                                       *)

Sq(a) == Mul(a, a)
\* |<<a, b>>|^2
Norm2(a, b) == Add(Sq(a), Sq(b))
Dot(a, b, c, d) == Add(Mul(a, c), Mul(b, d))
Cross(a, b, c, d) == Sub(Mul(a, d), Mul(b, c))
Updated(i) == epc = "updated" /\ i \in 1..Len(entities)

\* p / q <= r / s for naturals p, r and positive q, s, by their continued
\* fractions (no products, which would leave the range of TLC integers)
RECURSIVE FracLe(_, _, _, _)
FracLe(p, q, r, s) ==
    IF p \div q # r \div s THEN p \div q < r \div s
    ELSE IF p % q = 0 THEN TRUE
    ELSE IF r % s = 0 THEN FALSE
    ELSE FracLe(s, r % s, q, p % q)

\* |<<x, y>>| <= r for a rational r >= 0: with a common denominator,
\* a^2 + b^2 <= c^2, that is a / (c - b) <= (c + b) / a
NormLe(x, y, r) ==
    LET g == GCD(x[2], y[2])
        l == x[2] * (y[2] \div g)
        D == l * (r[2] \div GCD(l, r[2]))
        a == Abs(x[1]) * (D \div x[2])
        b == Abs(y[1]) * (D \div y[2])
        c == r[1] * (D \div r[2])
    IN  IF b > c THEN FALSE
        ELSE IF a = 0 THEN TRUE
        ELSE IF b = c THEN FALSE
        ELSE FracLe(a, c - b, c + b, a)

SamePlaceAndVelocity(e, f) ==
    e.x = f.x /\ e.y = f.y /\ e.vx = f.vx /\ e.vy = f.vy

\* C6 (as amended): after PhysicsEntity.update the speed of every entity is
\* at most 3, and "Update position" moves it by at most 3 * dt; the
\* boundary check that follows may move it further.
C6_SpeedAndIntegrationBounded ==
    \A i \in 1..MaxEntities : Updated(i) =>
        /\ NormLe(entities[i].vx, entities[i].vy, I(3))
        /\ NormLe(moved[i].vx, moved[i].vy, I(3))
        /\ NormLe(Sub(moved[i].x, pre[i].x), Sub(moved[i].y, pre[i].y),
                  Mul(I(3), lastDt))

\* C6 as stated: after PhysicsEntity.update the speed of every entity is at
\* most 3 and the displacement of the step is at most 3 * dt.
C6_SpeedAndStepBounded ==
    \A i \in 1..MaxEntities : Updated(i) =>
        /\ NormLe(entities[i].vx, entities[i].vy, I(3))
        /\ NormLe(Sub(entities[i].x, pre[i].x), Sub(entities[i].y, pre[i].y),
                  Mul(I(3), lastDt))

\* a click impulse drove an entity over the limit: it leaves update at
\* speed 3 exactly, having moved by 3 * dt
C6_Witness ==
    \E i \in 1..MaxEntities : Updated(i)
        /\ \E k \in 1..Len(forces) : forces[k].to = i /\ forces[k].by = "click"
        /\ Gt(lastDt, Zero)
        /\ SamePlaceAndVelocity(entities[i], moved[i])
        /\ Hypot(moved[i].vx, moved[i].vy) = I(3)
        /\ Hypot(Sub(moved[i].x, pre[i].x), Sub(moved[i].y, pre[i].y))
             = Mul(I(3), lastDt)

\* zero velocity, zero accumulated force, at the rest position
AtRest(e) ==
    /\ e.vx = Zero /\ e.vy = Zero
    /\ e.ax = Zero /\ e.ay = Zero
    /\ e.x = e.originalX /\ e.y = e.originalY

InsideMargins(e) ==
    /\ Le(I(100), e.x) /\ Le(e.x, I(innerW - 100))
    /\ Le(I(100), e.y) /\ Le(e.y, I(innerH - 100))

\* C7 (as amended): an entity with zero velocity and zero accumulated force
\* at its rest position, the rest position being at least 100 from every
\* edge of the window, keeps its position and velocity in update, for every
\* dt.
C7_FixedPointInsideMargins ==
    \A i \in 1..MaxEntities : Updated(i) =>
        (AtRest(pre[i]) /\ InsideMargins(pre[i])
            => SamePlaceAndVelocity(entities[i], pre[i]))

\* C7 as stated: an entity with zero velocity and zero accumulated force at
\* its rest position keeps its position and velocity in update, for every
\* rest position and window size.
C7_FixedPoint ==
    \A i \in 1..MaxEntities : Updated(i) =>
        (AtRest(pre[i]) => SamePlaceAndVelocity(entities[i], pre[i]))

\* an entity at rest inside the margins went through update with dt > 0
\* while another entity was pushed away
C7_Witness ==
    \E i, j \in 1..MaxEntities : Updated(i) /\ Updated(j)
        /\ Gt(lastDt, Zero)
        /\ AtRest(pre[i]) /\ InsideMargins(pre[i])
        /\ SamePlaceAndVelocity(entities[i], pre[i])
        /\ ~SamePlaceAndVelocity(entities[j], pre[j])

\* the boundary check of one axis as the code orders it: position m and
\* velocity v after "Update position", position p and velocity w after
\* update
BounceRule(m, v, p, w, extent) ==
    IF Lt(m, I(100)) THEN p = I(100) /\ w = Mul(R(-1, 2), v)
    ELSE IF Gt(m, I(extent - 100))
         THEN p = I(extent - 100) /\ w = Mul(R(-1, 2), v)
         ELSE p = m /\ w = v

\* the boundary check of one axis with the two edges on a par
SymmetricBounceRule(m, v, p, w, extent) ==
    /\ Lt(m, I(100)) => (p = I(100) /\ w = Mul(R(-1, 2), v))
    /\ Gt(m, I(extent - 100)) => (p = I(extent - 100) /\ w = Mul(R(-1, 2), v))
    /\ (~Lt(m, I(100)) /\ ~Gt(m, I(extent - 100))) => (p = m /\ w = v)

\* C8 (as amended): when "Update position" moves an entity to x < 100,
\* update ends with x = 100 and vx = -0.5 times the limited, damped vx;
\* when it moves it to x > width - 100 and not to x < 100, update ends with
\* x = width - 100 and vx = -0.5 times that vx; otherwise x and vx are as
\* "Update position" left them.  The same holds of y, vy and height.
C8_BoundaryBounce ==
    \A i \in 1..MaxEntities : Updated(i) =>
        /\ BounceRule(moved[i].x, moved[i].vx, entities[i].x, entities[i].vx, innerW)
        /\ BounceRule(moved[i].y, moved[i].vy, entities[i].y, entities[i].vy, innerH)

\* C8 as stated: the rule of the edge at 100 and the symmetric rule of the
\* edge at width - 100 both hold, and an axis that crossed neither keeps its
\* velocity.
C8_BoundaryBounceSymmetric ==
    \A i \in 1..MaxEntities : Updated(i) =>
        /\ SymmetricBounceRule(moved[i].x, moved[i].vx,
                               entities[i].x, entities[i].vx, innerW)
        /\ SymmetricBounceRule(moved[i].y, moved[i].vy,
                               entities[i].y, entities[i].vy, innerH)

\* an entity inside the margins was moved across x = 100 and bounced, its y
\* axis crossing nothing
C8_Witness ==
    \E i \in 1..MaxEntities : Updated(i)
        /\ Le(I(100), pre[i].x)
        /\ Lt(moved[i].x, I(100))
        /\ moved[i].vx # Zero
        /\ entities[i].x = I(100)
        /\ entities[i].vx = Mul(R(-1, 2), moved[i].vx)
        /\ entities[i].y = moved[i].y
        /\ entities[i].vy = moved[i].vy

PairForces(i, j) ==
    {k \in 1..Len(forces) :
        forces[k].by = "repulsion" /\ forces[k].to = i /\ forces[k].other = j}

\* C9: one applyEntityRepulsion pass visits every unordered pair of
\* entities exactly once; a pair at a distance d with 0 < d < 150 gets one
\* force each, the one the negation of the other, of magnitude 0.5 and
\* pointing away from the other entity; a pair at distance 0 or at 150 or
\* more gets none.
C9_RepulsionSymmetric ==
    epc = "updated" =>
        /\ 2 * Len(visits) = Len(entities) * (Len(entities) - 1)
        /\ \A i, j \in 1..Len(entities) : i < j =>
              /\ Cardinality({k \in 1..Len(visits) :
                                 visits[k] \in {<<i, j>>, <<j, i>>}}) = 1
              /\ LET dx == Sub(pre[j].x, pre[i].x)
                     dy == Sub(pre[j].y, pre[i].y)
                     d2 == Norm2(dx, dy)
                 IN  IF Gt(d2, Zero) /\ Lt(d2, I(150 * 150))
                     THEN /\ Cardinality(PairForces(i, j)) = 1
                          /\ Cardinality(PairForces(j, i)) = 1
                          /\ \A a \in PairForces(i, j), b \in PairForces(j, i) :
                                /\ forces[a].fx = Neg(forces[b].fx)
                                /\ forces[a].fy = Neg(forces[b].fy)
                                /\ Norm2(forces[a].fx, forces[a].fy) = R(1, 4)
                                /\ Norm2(forces[b].fx, forces[b].fy) = R(1, 4)
                                /\ Cross(forces[a].fx, forces[a].fy, dx, dy) = Zero
                                /\ Lt(Dot(forces[a].fx, forces[a].fy, dx, dy), Zero)
                                /\ Gt(Dot(forces[b].fx, forces[b].fy, dx, dy), Zero)
                     ELSE PairForces(i, j) = {} /\ PairForces(j, i) = {}

\* a pair closer than 150 was pushed apart in a pass
C9_Witness ==
    /\ epc = "updated"
    /\ \E i, j \in 1..Len(entities) :
          /\ i < j
          /\ Lt(Norm2(Sub(pre[j].x, pre[i].x), Sub(pre[j].y, pre[i].y)),
                I(150 * 150))
          /\ PairForces(i, j) # {}
          /\ PairForces(j, i) # {}

\* the logged applyForce calls that applyGravity made on entity i
FieldForces(i) ==
    {k \in 1..Len(forces) : forces[k].by = "gravity" /\ forces[k].to = i}

\* the square of the distance of entity e to the pointer
PointerDistance2(e) == Norm2(Sub(mouse[1], e.x), Sub(mouse[2], e.y))

\* force k points along the line from entity e to the pointer: toward it
\* (sign 1) or away from it (sign -1)
AlongPointer(k, e, sign) ==
    /\ Cross(forces[k].fx, forces[k].fy, Sub(mouse[1], e.x), Sub(mouse[2], e.y)) = Zero
    /\ Gt(Mul(I(sign), Dot(forces[k].fx, forces[k].fy,
                           Sub(mouse[1], e.x), Sub(mouse[2], e.y))), Zero)

\* C10: at a distance d to the pointer, applyGravity applies a force toward
\* the pointer of magnitude 0.3 * mass / (d * 0.01) when 100 < d < 300, a
\* force away from it of magnitude 2 * mass / (d * 0.01) when 10 < d <= 100,
\* and none when d <= 10 or d >= 300; an entity of mass 1 gets a repulsive 4
\* at d = 50, an attractive 0.15 at d = 200 and nothing at d = 500.
C10_FieldForceByDistance ==
    \A i \in 1..MaxEntities : Updated(i) =>
        LET e == pre[i]
            d2 == PointerDistance2(e)
            g == FieldForces(i)
        IN  /\ (Gt(d2, I(100 * 100)) /\ Lt(d2, I(300 * 300))) =>
                  /\ Cardinality(g) = 1
                  /\ \A k \in g :
                        /\ AlongPointer(k, e, 1)
                        /\ Mul(Norm2(forces[k].fx, forces[k].fy), d2)
                             = Sq(Mul(I(30), e.mass))
            /\ (Gt(d2, I(10 * 10)) /\ Le(d2, I(100 * 100))) =>
                  /\ Cardinality(g) = 1
                  /\ \A k \in g :
                        /\ AlongPointer(k, e, -1)
                        /\ Mul(Norm2(forces[k].fx, forces[k].fy), d2)
                             = Sq(Mul(I(200), e.mass))
            /\ (Le(d2, I(10 * 10)) \/ Le(I(300 * 300), d2)) => g = {}
            /\ (e.mass = I(1) /\ d2 = I(50 * 50)) =>
                  \E k \in g : /\ Norm2(forces[k].fx, forces[k].fy) = I(16)
                               /\ AlongPointer(k, e, -1)
            /\ (e.mass = I(1) /\ d2 = I(200 * 200)) =>
                  \E k \in g : /\ Norm2(forces[k].fx, forces[k].fy) = R(9, 400)
                               /\ AlongPointer(k, e, 1)
            /\ (e.mass = I(1) /\ d2 = I(500 * 500)) => g = {}

\* two entities of mass 1 in one frame: the one at 200 from the pointer is
\* attracted with 0.15, the one at 500 gets no field force
C10_Witness ==
    \E i, j \in 1..MaxEntities : Updated(i) /\ Updated(j)
        /\ pre[i].mass = I(1) /\ pre[j].mass = I(1)
        /\ PointerDistance2(pre[i]) = I(200 * 200)
        /\ \E k \in FieldForces(i) :
              /\ Norm2(forces[k].fx, forces[k].fy) = R(9, 400)
              /\ AlongPointer(k, pre[i], 1)
        /\ PointerDistance2(pre[j]) = I(500 * 500)
        /\ FieldForces(j) = {}

-----------------------------------------------------------------------------
(* The star field (particles.js).  The stars and the pointer lie on the     *)
(* top edge (y = 0, speedY = 0) or on the left edge (x = 0, speedX = 0) of  *)
(* the canvas, the edge being axis; ParticleSystem.mouse starts at their    *)
(* corner.  Every distance is rational then.                                *)

\* the number NaN: 0 / 0.  Arithmetic on it gives NaN, comparisons with it
\* are false.
NaN == <<0, 0>>
IsNaN(a) == a[2] = 0
AddN(a, b) == IF IsNaN(a) \/ IsNaN(b) THEN NaN ELSE Add(a, b)
SubN(a, b) == IF IsNaN(a) \/ IsNaN(b) THEN NaN ELSE Sub(a, b)
MulN(a, b) == IF IsNaN(a) \/ IsNaN(b) THEN NaN ELSE Mul(a, b)
\* a / b; 0 / 0 is NaN (the code divides by a distance, which is 0 only when
\* the dividend is 0 as well)
DivN(a, b) ==
    IF IsNaN(a) \/ IsNaN(b) \/ (a = Zero /\ b = Zero) THEN NaN ELSE Div(a, b)
LtN(a, b) == ~IsNaN(a) /\ ~IsNaN(b) /\ Lt(a, b)
GtN(a, b) == LtN(b, a)
HypotN(x, y) == IF IsNaN(x) \/ IsNaN(y) THEN NaN ELSE Hypot(x, y)

influenceRadius == 200

MaxStars == 1         \* bound: the stars of the field (particleCount)
MaxStarFrames == 2    \* bound: the frames the star field draws

\* ParticleSystem.updateParticle(p) with the pointer at m on a canvas of w by
\* h: the star after it, its position before "Wrap around edges", and the
\* distances it divided by
updateParticle(p, m, w, h) ==
    LET x1 == AddN(p.x, p.speedX)
        y1 == AddN(p.y, p.speedY)
        dx == SubN(m[1], x1)
        dy == SubN(m[2], y1)
    IN  The({
        LET near == LtN(distance, I(influenceRadius))
            force == DivN(SubN(I(influenceRadius), distance), I(influenceRadius))
            x2 == IF near
                  THEN SubN(x1, MulN(MulN(DivN(dx, distance), force), R(1, 2)))
                  ELSE x1
            y2 == IF near
                  THEN SubN(y1, MulN(MulN(DivN(dy, distance), force), R(1, 2)))
                  ELSE y1
            x3 == IF LtN(x2, Zero) THEN I(w) ELSE x2
            x4 == IF GtN(x3, I(w)) THEN Zero ELSE x3
            y3 == IF LtN(y2, Zero) THEN I(h) ELSE y2
            y4 == IF GtN(y3, I(h)) THEN Zero ELSE y3
        IN  [p |-> [p EXCEPT !.x = x4, !.y = y4],
             carried |-> <<x2, y2>>,
             divisors |-> IF near THEN <<distance, distance>> ELSE <<>>] :
        distance \in {HypotN(dx, dy)} })

\* ParticleSystem.init: x = Math.random() * canvas.width, speedX =
\* (Math.random() - 0.5) * 0.2, and so on y; <<the Math.random() of the
\* position, the speed>> along the edge the star lies on
StarDraws == { <<Zero, Zero>>, <<R(1, 8), Zero>>,
               <<R(1, 16000), R(-1, 10)>>, <<R(15999, 16000), R(1, 10)>> }
\* the top edge and the left edge, as directions
StarEdges == {<<I(1), Zero>>, <<Zero, I(1)>>}

Star(d, u, w, h) ==
    [x |-> Mul(Mul(d[1], I(w)), u[1]), y |-> Mul(Mul(d[1], I(h)), u[2]),
     speedX |-> Mul(d[2], u[1]), speedY |-> Mul(d[2], u[2])]

\* where the pointer goes along the edge, from the corner
StarPointerOffsets == {0, 75, 100, 700}

\* the document's mousemove listener of ParticleSystem.setupListeners
StarMouseMove ==
    /\ spc \in {"events", "updated"}
    /\ spc' = "events"
    /\ \E t \in StarPointerOffsets :
          starMouse' = <<Mul(I(t), axis[1]), Mul(I(t), axis[2])>>
    /\ UNCHANGED <<stars, starW, starH, starFrames, carried, divisors>>
    /\ UNCHANGED <<pageVars, overlayVars, bootVars, entityVars, trackerVars,
                   mouseForces, userPaused>>

\* the window is resized: ParticleSystem.resize is its listener
StarResize ==
    /\ spc \in {"events", "updated"}
    /\ spc' = "events"
    /\ \E v \in Viewports :
          /\ innerW' = v[1]
          /\ innerH' = v[2]
          /\ starW' = v[1]
          /\ starH' = v[2]
    /\ UNCHANGED <<stars, starMouse, starFrames, carried, divisors>>
    /\ UNCHANGED <<dom, reducedMotion, touch, hidden, saved, now>>
    /\ UNCHANGED <<overlayVars, bootVars, entityVars, trackerVars,
                   mouseForces, userPaused>>

\* ParticleSystem.animate: updateParticle on every star (drawing changes no
\* state)
StarAnimate ==
    /\ spc \in {"events", "updated"}
    /\ starFrames < MaxStarFrames
    /\ spc' = "updated"
    /\ starFrames' = starFrames + 1
    /\ \E u \in {[i \in 1..Len(stars) |->
                    updateParticle(stars[i], starMouse, starW, starH)]} :
          /\ stars' = [i \in 1..Len(stars) |-> u[i].p]
          /\ carried' = [i \in 1..Len(stars) |-> u[i].carried]
          /\ divisors' = [i \in 1..Len(stars) |-> u[i].divisors]
    /\ UNCHANGED <<starMouse, starW, starH>>
    /\ UNCHANGED <<pageVars, overlayVars, bootVars, entityVars, trackerVars,
                   mouseForces, userPaused>>

\* the star field as its constructor leaves it: resize(), init(), mouse at
\* the corner
InitStars ==
    /\ dom = {"physics-canvas", "physics-toggle"} \cup OtherElements
    /\ reducedMotion = FALSE
    /\ touch = FALSE
    /\ hidden = FALSE
    /\ saved = "null"
    /\ now = Zero
    /\ OverlayInit
    /\ starStatus = "load"
    /\ entityStatus = "load"
    /\ setupDone = <<>>
    /\ TrackerIdle
    /\ entities = <<>>
    /\ mouse = <<Zero, Zero>>
    /\ epc = "off"
    /\ forces = <<>>
    /\ visits = <<>>
    /\ pre = <<>>
    /\ moved = <<>>
    /\ lastDt = Zero
    /\ \E v \in Viewports :
          /\ innerW = v[1]
          /\ innerH = v[2]
          /\ starW = v[1]
          /\ starH = v[2]
          /\ \E edge \in StarEdges :
                /\ axis = edge
                /\ stars \in {[i \in 1..MaxStars |-> Star(ds[i], edge, v[1], v[2])] :
                               ds \in [1..MaxStars -> StarDraws]}
    /\ starMouse = <<Zero, Zero>>
    /\ spc = "events"
    /\ starFrames = 0
    /\ carried = <<>>
    /\ divisors = <<>>

NextStars ==
    \/ StarMouseMove
    \/ StarResize
    \/ StarAnimate

SpecStars == InitStars /\ [][NextStars]_vars

\* C11: no frame divides by a distance of zero when it normalises a
\* direction; here for the star field's pointer nudge, also when the
\* pointer is exactly where a star is.
C11_NoDivisionByZero ==
    \A i \in DOMAIN divisors : \A k \in DOMAIN divisors[i] :
        divisors[i][k] # Zero

\* C12: after updateParticle a star carried past canvas.width on x has
\* x = 0, one carried below 0 has x = canvas.width, likewise on y with
\* canvas.height, and every star has 0 <= x <= canvas.width and
\* 0 <= y <= canvas.height, also after the canvas was resized smaller.
C12_StarWrap ==
    spc = "updated" =>
        \A i \in DOMAIN stars :
            /\ GtN(carried[i][1], I(starW)) => stars[i].x = Zero
            /\ LtN(carried[i][1], Zero) => stars[i].x = I(starW)
            /\ GtN(carried[i][2], I(starH)) => stars[i].y = Zero
            /\ LtN(carried[i][2], Zero) => stars[i].y = I(starH)
            /\ ~LtN(stars[i].x, Zero) /\ ~GtN(stars[i].x, I(starW))
            /\ ~IsNaN(stars[i].x)
            /\ ~LtN(stars[i].y, Zero) /\ ~GtN(stars[i].y, I(starH))
            /\ ~IsNaN(stars[i].y)

-----------------------------------------------------------------------------
(* The pointer tracker (mouse-tracker.js) and the steering force of the     *)
(* overlay, in a running session: the bodies and the pointer lie on the     *)
(* line y = 300 of an 800 by 600 canvas (and the tracker's initial          *)
(* position (0, 0) is at a rational distance of each body).                 *)

\* where the bodies are, along the line
BodyOffsets == {400, 160}
\* pointer events: <<clientX, clientY, rect.left, rect.top>>
PointerEvents == { <<400, 300, 0, 0>>, <<160, 300, 0, 0>>, <<550, 300, 0, 0>>,
                   <<320, 310, 10, 10>>, <<650, 300, 0, 0>> }

\* the listeners initMouseTracker(canvas) installs exist
TrackerInstalled == phase = "ready"

\* handleMouseMove / handleTouch: the position relative to the canvas
canvasPosition(e) == <<Sub(I(e[1]), I(e[3])), Sub(I(e[2]), I(e[4]))>>

\* the canvas' mouseenter listener
MouseEnter ==
    /\ TrackerInstalled
    /\ isTracking' = TRUE
    /\ lastEvent' = [kind |-> "mouseenter", empty |-> FALSE]
    /\ UNCHANGED <<mousePosition, fresh, mouseForces, userPaused>>
    /\ UNCHANGED <<pageVars, overlayVars, bootVars, entityVars, starVars>>

\* handleMouseMove
handleMouseMove ==
    /\ TrackerInstalled
    /\ \E e \in PointerEvents : mousePosition' = canvasPosition(e)
    /\ isTracking' = TRUE
    /\ fresh' = TRUE
    /\ lastEvent' = [kind |-> "mousemove", empty |-> FALSE]
    /\ UNCHANGED <<mouseForces, userPaused>>
    /\ UNCHANGED <<pageVars, overlayVars, bootVars, entityVars, starVars>>

\* the canvas' mouseleave listener
MouseLeave ==
    /\ TrackerInstalled
    /\ isTracking' = FALSE
    /\ fresh' = FALSE
    /\ lastEvent' = [kind |-> "mouseleave", empty |-> FALSE]
    /\ UNCHANGED <<mousePosition, mouseForces, userPaused>>
    /\ UNCHANGED <<pageVars, overlayVars, bootVars, entityVars, starVars>>

\* handleTouch, the touchstart and touchmove listener of a touch device;
\* touches is event.touches, of length 0 or 1 here
handleTouch ==
    /\ TrackerInstalled
    /\ touch
    /\ \E type \in {"touchstart", "touchmove"},
          touches \in {<<>>} \cup {<<e>> : e \in PointerEvents} :
          IF Len(touches) > 0
          THEN /\ mousePosition' = canvasPosition(touches[1])
               /\ isTracking' = TRUE
               /\ fresh' = TRUE
               /\ lastEvent' = [kind |-> type, empty |-> FALSE]
          ELSE /\ lastEvent' = [lastEvent EXCEPT !.empty = TRUE]
               /\ UNCHANGED <<mousePosition, isTracking, fresh>>
    /\ UNCHANGED <<mouseForces, userPaused>>
    /\ UNCHANGED <<pageVars, overlayVars, bootVars, entityVars, starVars>>

\* the touchend listener of a touch device
TouchEnd ==
    /\ TrackerInstalled
    /\ touch
    /\ isTracking' = FALSE
    /\ fresh' = FALSE
    /\ lastEvent' = [kind |-> "touchend", empty |-> FALSE]
    /\ UNCHANGED <<mousePosition, mouseForces, userPaused>>
    /\ UNCHANGED <<pageVars, overlayVars, bootVars, entityVars, starVars>>

\* a session after initPhysicsEngine, the loop running, the bodies somewhere
\* on the line
InitTracker ==
    /\ dom = {"physics-canvas", "physics-toggle"} \cup OtherElements
    /\ reducedMotion = FALSE
    /\ touch \in BOOLEAN
    /\ hidden = FALSE
    /\ saved = "null"
    /\ innerW = 800
    /\ innerH = 600
    /\ now = Zero
    /\ phase = "ready"
    /\ animationId = 1
    /\ isPaused = FALSE
    /\ rafQueue = {[h |-> 1, chain |-> 1]}
    /\ nextHandle = 2
    /\ lastTime = <<Zero>>
    /\ canvasW = 800
    /\ canvasH = 600
    /\ world \in {createBoundaries(800, 600) \o
                    [i \in 1..MaxParticles |-> Particle(I(xs[i]), I(300))] :
                  xs \in [1..MaxParticles -> BodyOffsets]}
    /\ particles = TRUE
    /\ hiddenWhileRunning = FALSE
    /\ savedAtInit = "null"
    /\ toggled = FALSE
    /\ steps = 0
    /\ BootIdle
    /\ StarIdle
    /\ TrackerIdle
    /\ EntityIdle

NextTracker ==
    \/ MouseEnter
    \/ handleMouseMove
    \/ MouseLeave
    \/ handleTouch
    \/ TouchEnd
    \/ animate

SpecTracker == InitTracker /\ [][NextTracker]_vars

\* the square of the distance of the tracked position to body b
TrackedDistance2(b) ==
    Norm2(Sub(mousePosition[1], b.x), Sub(mousePosition[2], b.y))

\* C14: getMousePosition returns null exactly when the last event that set
\* the tracking flag was mouseleave or touchend, or none came; a touch
\* event without touches changes neither the position nor the flag; and a
\* step applies a steering force to a body only when the pointer is tracked
\* and 0 < distance < interactionRadius.
C14_TrackedExactlyAfterEnterOrMove ==
    /\ [](getMousePosition = <<>>
            <=> lastEvent.kind \in {"none", "mouseleave", "touchend"})
    /\ [][(lastEvent'.empty /\ lastEvent' # lastEvent)
             => UNCHANGED <<mousePosition, isTracking>>]_vars
    /\ [][steps' = steps + 1 =>
             \A k \in DOMAIN mouseForces' :
                LET b == SelectSeq(world, NotStatic)[mouseForces'[k].to]
                IN  /\ isTracking
                    /\ lastEvent.kind \notin {"none", "mouseleave", "touchend"}
                    /\ Gt(TrackedDistance2(b), Zero)
                    /\ Lt(TrackedDistance2(b),
                          I((IF touch THEN 150 ELSE 250) *
                            (IF touch THEN 150 ELSE 250)))]_vars

\* a step applied a steering force while the pointer was tracked, and an
\* empty touch event has come since
C14_Witness ==
    /\ steps > 0
    /\ mouseForces # <<>>
    /\ isTracking
    /\ lastEvent.empty

\* C18: whenever getMousePosition returns a position, a mousemove,
\* touchstart or touchmove wrote it after the last mouseleave / touchend
\* and after initialization.
C18_NoStalePosition ==
    getMousePosition # <<>> => fresh

=============================================================================
